---- MODULE Spec2Model ----
(***************************************************************************)
(* Model of src/BMI/bmi.py (class BMICalculatorApp): the calculator flow   *)
(* (validation, BMI, categorisation, history store), the hydration log,    *)
(* the ideal weight estimator, the energy planner and the chatbot's query  *)
(* engine with its worker thread.                                          *)
(*                                                                         *)
(* Number representation.  The program computes with Python floats; the    *)
(* model uses fixed-point integers:                                        *)
(*   weight            whole kilograms or pounds                           *)
(*   metric height     hundredths of a metre (175 is 1.75 m)               *)
(*   imperial height   tenths of an inch     (695 is 69.5 in)              *)
(*   bmi               ten-thousandths, rounded down (185000 is 18.5)      *)
(* Rounding down to 1/10000 keeps every comparison with the thresholds     *)
(* 16.0, 18.5, 25.0, 30.0, 35.0 exact.                                     *)
(*                                                                         *)
(* Widgets that only present data (labels' colours, the chat Text widget,  *)
(* canvases, the navbar) are not modelled.                                 *)
(***************************************************************************)
EXTENDS Integers, Sequences, FiniteSets, TLC

VARIABLES
    unit_system,             \* self.unit_system        (bmi.py:131)
    diet_preference,         \* self.diet_preference    (bmi.py:136)
    water_intake_ml,         \* self.water_intake_ml    (bmi.py:139)
    chatbot_is_loading,      \* self.chatbot_is_loading (bmi.py:141)
    chatbot_input,           \* text of the self.chatbot_input Entry (bmi.py:303)
    current_inputs,          \* self.current_inputs     (bmi.py:145)
    history,                 \* self.history            (bmi.py:146)
    chat_history,            \* self.chat_history       (bmi.py:151)
    dynamic_feedback_label,  \* text of self.dynamic_feedback_label
    history_file,            \* content of HISTORY_FILE on disk
    main_pc,                 \* position of the main (Tk) thread
    threads,                 \* running worker threads (bmi.py:565)
    after_queue,             \* callbacks queued with master.after (bmi.py:575)
    calcs_done,              \* successful calculations so far (bounds the run)
    queries_sent,            \* accepted queries so far (bounds the run)
    cz,                      \* categorizer harness: input and result
    qe,                      \* query-engine harness: inputs and results
    bc,                      \* perform_calculation harness: arguments and outcome
    pl,                      \* generate_diet_plan harness: profile and plan
    rs                       \* calculation-result harness: validated inputs and results

appvars == <<unit_system, diet_preference, water_intake_ml, chatbot_is_loading,
             chatbot_input, current_inputs, history, chat_history, dynamic_feedback_label,
             history_file, main_pc, threads, after_queue, calcs_done,
             queries_sent>>

vars == <<unit_system, diet_preference, water_intake_ml, chatbot_is_loading,
          chatbot_input, current_inputs, history, chat_history, dynamic_feedback_label,
          history_file, main_pc, threads, after_queue, calcs_done,
          queries_sent, cz, qe, bc, pl, rs>>

----------------------------------------------------------------------------
(* Bounds of the model *)

MaxCalcs == 2
MaxQueries == 2
MaxWater == 2500
MaxTime == 1
BmiGridMax == 100

----------------------------------------------------------------------------
(* Program constants *)

BMI_EXTREME_LOW == 160000
BMI_EXTREME_HIGH == 350000
WATER_GOAL_ML == 2500
HISTORY_CAP == 20

DIET_OPTIONS == <<"Omnivore", "Vegetarian", "Vegan">>

EmptyDict == [k \in {} |-> 0]

----------------------------------------------------------------------------
(* Arithmetic helpers *)

Min(a, b) == IF a < b THEN a ELSE b

RECURSIVE FracDigits(_, _, _)
\* floor(r * 10^n / d) for 0 <= r < d, one decimal digit at a time
FracDigits(r, d, n) ==
    IF n = 0 THEN 0
    ELSE LET q == (r * 10) \div d
             s == (r * 10) % d
         IN  q * (10 ^ (n - 1)) + FracDigits(s, d, n - 1)

\* floor(a * 10^n / d), without overflowing 32-bit arithmetic
ScaledDiv(a, d, n) == (a \div d) * (10 ^ n) + FracDigits(a % d, d, n)

\* Python's round() of tenths/10 to an integer (round half to even)
RoundTenths(t) ==
    LET w == t \div 10
        f == t % 10
    IN  IF f < 5 THEN w
        ELSE IF f > 5 THEN w + 1
        ELSE IF w % 2 = 0 THEN w ELSE w + 1

\* round(bmi, 2): ten-thousandths to hundredths
Round2(b) == (b + 50) \div 100

TwoDigits(n) == IF n < 10 THEN "0" \o ToString(n) ELSE ToString(n)

\* n / d rounded to the nearest integer, a half to the even one
RoundDiv(n, d) ==
    LET w == n \div d
        r == n % d
    IN  IF 2 * r < d THEN w
        ELSE IF 2 * r > d THEN w + 1
        ELSE IF w % 2 = 0 THEN w ELSE w + 1

\* f"{x:.1f}" of x given in tenths
Fmt1(t) == ToString(t \div 10) \o "." \o ToString(t % 10)

----------------------------------------------------------------------------
(* Calculator: pure functions *)

perform_calculation_without_703(weight, height, unit) ==
    IF unit = "metric"
    THEN ScaledDiv(weight * 10000, height * height, 4)
    ELSE ScaledDiv(weight * 100, height * height, 4)

\* perform_calculation(weight, height, unit): the BMI in ten-thousandths
perform_calculation(weight, height, unit) ==
    IF unit = "metric"
    THEN ScaledDiv(weight * 10000, height * height, 4)
    ELSE ScaledDiv(weight * 703 * 100, height * height, 4)

\* what a call of perform_calculation does: height ** 2 is 0.0 for height 0 and
\* the division raises ZeroDivisionError; any other height, negative ones
\* included, gives a value.  The function has no check of its own.
perform_calculation_outcome(weight, height, unit) ==
    IF height = 0
    THEN [kind |-> "ZeroDivisionError", bmi |-> 0]
    ELSE [kind |-> "value", bmi |-> perform_calculation(weight, height, unit)]

categorize_label_lowerexclusive(bmi) ==
    IF bmi <= 185000 THEN "Underweight"
    ELSE IF 185000 < bmi /\ bmi <= 250000 THEN "Normal Weight"
    ELSE IF 250000 < bmi /\ bmi <= 300000 THEN "Overweight"
    ELSE "Obesity"

\* categorize_bmi, the category label
categorize_label(bmi) ==
    IF bmi < 185000 THEN "Underweight"
    ELSE IF 185000 <= bmi /\ bmi < 250000 THEN "Normal Weight"
    ELSE IF 250000 <= bmi /\ bmi < 300000 THEN "Overweight"
    ELSE "Obesity"

is_severe_inclusive(bmi) == bmi <= BMI_EXTREME_LOW \/ bmi >= BMI_EXTREME_HIGH

\* categorize_bmi, the severe-risk escalation test
is_severe(bmi) == bmi < BMI_EXTREME_LOW \/ bmi > BMI_EXTREME_HIGH

\* categorize_bmi(bmi, gender, unit, age)
categorize_bmi(bmi, gender, unit, age) ==
    LET category == categorize_label(bmi)
        base_color == CASE category = "Underweight" -> "COLOR_ACCENT_BLUE"
                        [] category = "Normal Weight" -> "COLOR_ACCENT_GREEN"
                        [] category = "Overweight" -> "COLOR_WARNING"
                        [] OTHER -> "COLOR_DANGER"
        base_bg == CASE category = "Underweight" -> "#E3F2FD"
                     [] category = "Normal Weight" -> "#E8F5E9"
                     [] category = "Overweight" -> "#FFFDE7"
                     [] OTHER -> "#FFEBEE"
        warning_prefix == IF is_severe(bmi)
                          THEN <<"SEVERE HEALTH RISK INDICATOR", ToString(Round2(bmi))>>
                          ELSE <<>>
        body == CASE category = "Underweight" -> <<"Possible risks: Weakened immune system">>
                  [] category = "Normal Weight" ->
                        <<"Maintain healthy habits. As a", gender, "for", ToString(age), "year old">>
                  [] category = "Overweight" -> <<"Increased risk of: Type 2 diabetes">>
                  [] OTHER -> <<"High risk of: Severe cardiovascular disease">>
        benefit == CASE category = "Underweight" -> "Benefits of reaching normal weight"
                     [] category = "Normal Weight" -> "Benefits: Lowest risk"
                     [] category = "Overweight" -> "Benefits of losing weight"
                     [] OTHER -> "Benefits of weight management"
    IN  [category |-> category,
         color |-> IF is_severe(bmi) THEN "COLOR_DANGER" ELSE base_color,
         bg_color |-> IF is_severe(bmi) THEN "#FFCDD2" ELSE base_bg,
         warning |-> warning_prefix \o body,
         benefit |-> benefit]

----------------------------------------------------------------------------
(* Form entries.  An Entry widget holds text; the model keeps what float()  *)
(* and int() make of it: blank text, non-numeric text, a decimal numeral    *)
(* that is no integer literal ("30.5"), or a number: whole kilograms,       *)
(* pounds, years or feet; hundredths of a metre; tenths of an inch.         *)

Blank == [kind |-> "blank", val |-> 0]
Junk == [kind |-> "junk", val |-> 0]
Decimal == [kind |-> "decimal", val |-> 0]
Num(n) == [kind |-> "num", val |-> n]

\* float(text) succeeds (weight and height entries are blank, junk or numbers)
FloatOk(e) == e.kind = "num"
\* int(text) succeeds: not for blank or junk text, nor for a numeral like "30.5"
IntOk(e) == e.kind = "num"
\* float(text or 0)
FloatOrZero(e) == IF e.kind = "blank" THEN Num(0) ELSE e

FB_START == "Enter your details to get started!"
FB_NAME == "Please enter your name to personalize the plan."
FB_POSITIVE == "Weight and Height must be positive numbers."
FB_AGE == "Age must be between 16 and 120 years."
FB_INVALID == "Invalid input: Please ensure all fields contain valid numbers."
FB_OK == "Inputs validated. Ready to calculate!"

Rejected(label) == [ok |-> FALSE, feedback |-> label, inputs |-> EmptyDict]

\* validate_and_get_inputs: the label it sets and the dict (or None) it returns
validate_and_get_inputs(form, unit, diet) ==
    IF form.name = "" THEN Rejected(FB_NAME)
    ELSE IF ~FloatOk(form.weight) \/ ~IntOk(form.age) THEN Rejected(FB_INVALID)
    ELSE IF unit = "metric" /\ ~FloatOk(form.metric_height) THEN Rejected(FB_INVALID)
    ELSE IF unit = "imperial" /\ (~FloatOk(FloatOrZero(form.ft)) \/ ~FloatOk(FloatOrZero(form.inch)))
         THEN Rejected(FB_INVALID)
    ELSE LET weight == form.weight.val
             age == form.age.val
             height == IF unit = "metric"
                       THEN form.metric_height.val
                       ELSE (FloatOrZero(form.ft).val * 12) * 10 + FloatOrZero(form.inch).val
         IN  IF weight <= 0 \/ height <= 0 THEN Rejected(FB_POSITIVE)
             ELSE IF ~(16 <= age /\ age <= 120) THEN Rejected(FB_AGE)
             ELSE [ok |-> TRUE, feedback |-> FB_OK,
                   inputs |-> [name |-> form.name, weight |-> weight, height |-> height,
                               age |-> age, gender |-> form.gender,
                               activity |-> form.activity, goal |-> form.goal,
                               diet |-> diet, unit |-> unit]]

----------------------------------------------------------------------------
(* History store *)

FILE_MISSING == [kind |-> "missing", data |-> <<>>]
FILE_MALFORMED == [kind |-> "malformed", data |-> <<>>]
\* a file whose bytes are not text in the platform encoding
FILE_UNDECODABLE == [kind |-> "undecodable", data |-> <<>>]

float_repr_one_decimal(h) == ToString(h \div 100) \o "." \o ToString((h % 100) \div 10)

\* json.dump's text of a float given in hundredths (float.__repr__):
\* 2286 is "22.86", 2280 is "22.8", 2300 is "23.0"
float_repr(h) ==
    ToString(h \div 100) \o "." \o
    (IF (h % 100) % 10 = 0 THEN ToString((h % 100) \div 10) ELSE TwoDigits(h % 100))

\* json.dump(self.history, f): the records as written, numbers as their text
json_dump(records) ==
    [k \in 1..Len(records) |-> [records[k] EXCEPT !.bmi = float_repr(@)]]

DigitOf(c) == CHOOSE d \in 0..9 : ToString(d) = c

RECURSIVE ParseNat(_, _)
\* the number written by the first n characters of s, all digits
ParseNat(s, n) == IF n = 0 THEN 0 ELSE 10 * ParseNat(s, n - 1) + DigitOf(SubSeq(s, n, n))

RECURSIVE DotAt(_, _)
\* the position of the first "." of s at or after k
DotAt(s, k) == IF SubSeq(s, k, k) = "." THEN k ELSE DotAt(s, k + 1)

\* json.load's float of a number text, in hundredths
parse_float(text) ==
    LET dot == DotAt(text, 1)
        frac == SubSeq(text, dot + 1, Len(text))
    IN  100 * ParseNat(text, dot - 1)
          + (IF Len(frac) = 1 THEN 10 * ParseNat(frac, 1) ELSE ParseNat(frac, 2))

\* json.load(f) of what json.dump wrote
json_load(data) ==
    [k \in 1..Len(data) |-> [data[k] EXCEPT !.bmi = parse_float(@)]]

FileOf(records) == [kind |-> "json", data |-> json_dump(records)]

\* load_history: the list self.history is set to (bmi.py:146 when it raises)
load_history(file) == IF file.kind = "json" THEN json_load(file.data) ELSE <<>>

\* load_history raises: the except clause names json.JSONDecodeError and
\* IOError, and decoding the file's bytes raises UnicodeDecodeError, a
\* ValueError that is neither (bmi.py:934-936)
load_history_raises(file) == file.kind = "undecodable"

\* the last n elements of s: s[-n:]
LastN(s, n) == IF Len(s) <= n THEN s ELSE SubSeq(s, Len(s) - n + 1, Len(s))

\* f"{height:.2f} m" and f"{feet} ft {inches} in"
height_str(height, unit) ==
    IF unit = "metric"
    THEN ToString(height \div 100) \o "." \o TwoDigits(height % 100) \o " m"
    ELSE LET feet == height \div 120
             inches == RoundTenths(height % 120)
         IN  ToString(feet) \o " ft " \o ToString(inches) \o " in"

\* f"{weight} kg" / f"{weight} lbs" of a whole-number float
weight_str(weight, unit) ==
    ToString(weight) \o ".0" \o (IF unit = "metric" THEN " kg" ELSE " lbs")

\* the record save_history builds (bmi.py:943-961)
new_record(inputs, bmi, category, date) ==
    [date |-> date, bmi |-> Round2(bmi), category |-> category,
     weight |-> weight_str(inputs.weight, inputs.unit),
     height |-> height_str(inputs.height, inputs.unit)]

appended_history_uncapped(hist, record) == Append(hist, record)

appended_history_keeps_oldest(hist, record) ==
    SubSeq(Append(hist, record), 1, Min(Len(hist) + 1, HISTORY_CAP))

\* self.history after save_history's append and truncation (bmi.py:962-963)
appended_history(hist, record) == LastN(Append(hist, record), HISTORY_CAP)

\* the file after save_history's write, by the outcome of open/json.dump
written_file(file, hist, outcome) ==
    CASE outcome = "ok" -> FileOf(hist)
      [] outcome = "open_failed" -> file
      [] OTHER -> FILE_MALFORMED

SaveOutcomes == {"ok", "open_failed", "write_failed"}

----------------------------------------------------------------------------
(* Query engine *)

LowerChar(c) ==
    CASE c = "A" -> "a" [] c = "B" -> "b" [] c = "C" -> "c" [] c = "D" -> "d"
      [] c = "E" -> "e" [] c = "F" -> "f" [] c = "G" -> "g" [] c = "H" -> "h"
      [] c = "I" -> "i" [] c = "J" -> "j" [] c = "K" -> "k" [] c = "L" -> "l"
      [] c = "M" -> "m" [] c = "N" -> "n" [] c = "O" -> "o" [] c = "P" -> "p"
      [] c = "Q" -> "q" [] c = "R" -> "r" [] c = "S" -> "s" [] c = "T" -> "t"
      [] c = "U" -> "u" [] c = "V" -> "v" [] c = "W" -> "w" [] c = "X" -> "x"
      [] c = "Y" -> "y" [] c = "Z" -> "z" [] OTHER -> c

RECURSIVE LowerFrom(_, _)
\* s[i-1:].lower(), character by character
LowerFrom(s, i) ==
    IF i > Len(s) THEN ""
    ELSE LowerChar(SubSeq(s, i, i)) \o LowerFrom(s, i + 1)

\* str.lower()
Lower(s) == LowerFrom(s, 1)

RECURSIVE Strip(_)
\* str.strip() (of blanks)
Strip(s) == IF Len(s) = 0 THEN ""
            ELSE IF SubSeq(s, 1, 1) = " " THEN Strip(SubSeq(s, 2, Len(s)))
            ELSE IF SubSeq(s, Len(s), Len(s)) = " " THEN Strip(SubSeq(s, 1, Len(s) - 1))
            ELSE s

\* kw in q
Contains(q, kw) ==
    \E i \in 1..(Len(q) - Len(kw) + 1) : SubSeq(q, i, i + Len(kw) - 1) = kw

ContainsAny(q, kws) == \E kw \in kws : Contains(q, kw)

MEDICAL_DISCLAIMER == "Disclaimer: I am an AI assistant, not a doctor. **Always consult a qualified healthcare professional** for medical diagnosis or treatment."

WaterKeywords == {"water status", "my water", "hydration", "how much water"}
PlanKeywords == {"diet plan", "my goals", "my plan"}
ReportKeywords == {"my health report", "my metrics"}
ExerciseKeywords == {"exercise", "workout"}

rule_after_water_cardio_before_medication(q) ==
    IF ContainsAny(q, PlanKeywords) THEN 2
    ELSE IF ContainsAny(q, ReportKeywords) THEN 3
    ELSE IF Contains(q, "what is the medical disclaimer") THEN 4
    ELSE IF ContainsAny(q, {"heart disease", "cardio", "blood pressure"}) THEN 7
    ELSE IF ContainsAny(q, {"medication", "drug", "supplements"}) THEN 5
    ELSE IF ContainsAny(q, {"diabetes", "blood sugar"}) THEN 6
    ELSE IF ContainsAny(q, {"allergies", "intolerance"}) THEN 8
    ELSE IF ContainsAny(q, {"healthy bmi", "what is bmi"}) THEN 9
    ELSE IF Contains(q, "foods") /\ ContainsAny(q, {"weight loss", "lose weight"}) THEN 10
    ELSE IF ContainsAny(q, ExerciseKeywords) THEN 11
    ELSE IF Contains(q, "balanced diet") THEN 12
    ELSE IF ContainsAny(q, {"hello", "hi"}) THEN 13
    ELSE 14

\* get_rule_based_response's branches after the water branch (bmi.py:496-551)
rule_after_water(q) ==
    IF ContainsAny(q, PlanKeywords) THEN 2
    ELSE IF ContainsAny(q, ReportKeywords) THEN 3
    ELSE IF Contains(q, "what is the medical disclaimer") THEN 4
    ELSE IF ContainsAny(q, {"medication", "drug", "supplements"}) THEN 5
    ELSE IF ContainsAny(q, {"diabetes", "blood sugar"}) THEN 6
    ELSE IF ContainsAny(q, {"heart disease", "cardio", "blood pressure"}) THEN 7
    ELSE IF ContainsAny(q, {"allergies", "intolerance"}) THEN 8
    ELSE IF ContainsAny(q, {"healthy bmi", "what is bmi"}) THEN 9
    ELSE IF Contains(q, "foods") /\ ContainsAny(q, {"weight loss", "lose weight"}) THEN 10
    ELSE IF ContainsAny(q, ExerciseKeywords) THEN 11
    ELSE IF Contains(q, "balanced diet") THEN 12
    ELSE IF ContainsAny(q, {"hello", "hi"}) THEN 13
    ELSE 14

rule_of_exercise_first(q) ==
    IF ContainsAny(q, ExerciseKeywords) THEN 11
    ELSE IF ContainsAny(q, WaterKeywords) THEN 1
    ELSE rule_after_water(q)

\* the first branch of get_rule_based_response that the lower-cased query takes,
\* numbered as in the design's rule list (bmi.py:484-551)
rule_of(q) ==
    IF ContainsAny(q, WaterKeywords) THEN 1
    ELSE rule_after_water(q)

\* the keyword test of rule n of the design's rule list, on the lower-cased
\* query (bmi.py:485, 497, 515, 520, 523, 526, 529, 532, 536, 539, 542, 545, 548)
Matches(q, n) ==
    CASE n = 1 -> ContainsAny(q, WaterKeywords)
      [] n = 2 -> ContainsAny(q, PlanKeywords)
      [] n = 3 -> ContainsAny(q, ReportKeywords)
      [] n = 4 -> Contains(q, "what is the medical disclaimer")
      [] n = 5 -> ContainsAny(q, {"medication", "drug", "supplements"})
      [] n = 6 -> ContainsAny(q, {"diabetes", "blood sugar"})
      [] n = 7 -> ContainsAny(q, {"heart disease", "cardio", "blood pressure"})
      [] n = 8 -> ContainsAny(q, {"allergies", "intolerance"})
      [] n = 9 -> ContainsAny(q, {"healthy bmi", "what is bmi"})
      [] n = 10 -> Contains(q, "foods") /\ ContainsAny(q, {"weight loss", "lose weight"})
      [] n = 11 -> ContainsAny(q, ExerciseKeywords)
      [] n = 12 -> Contains(q, "balanced diet")
      [] n = 13 -> ContainsAny(q, {"hello", "hi"})
      [] OTHER -> FALSE

\* the rules 1..13 whose keyword test the lower-cased query passes
MatchingRules(q) == {n \in 1..13 : Matches(q, n)}

\* s without its i-th element
RemoveAt(s, i) == SubSeq(s, 1, i - 1) \o SubSeq(s, i + 1, Len(s))

\* dict[key] = value
SetKey(dict, key, value) == (key :> value) @@ dict

HasKey(dict, key) == key \in DOMAIN dict

\* dict.get(key, default)
Get(dict, key, default) == IF HasKey(dict, key) THEN dict[key] ELSE default

\* f"{bmi:.2f}" of a BMI in ten-thousandths
Fmt2(b) == ToString(Round2(b) \div 100) \o "." \o TwoDigits(Round2(b) % 100)

\* str() of a float given in hundredths: 175 is "1.75", 170 is "1.7", 200 is "2.0"
MetresRepr(h) ==
    ToString(h \div 100) \o "." \o
    (IF (h % 100) % 10 = 0 THEN ToString((h % 100) \div 10) ELSE TwoDigits(h % 100))

\* get_personalized_health_report raises: f"{'N/A':.2f}" is a ValueError when
\* the profile has no 'bmi' key yet (bmi.py:457)
report_raises(profile) == profile # EmptyDict /\ ~HasKey(profile, "bmi")

\* get_personalized_health_report, as the pieces of the returned text
get_personalized_health_report(profile, water) ==
    IF profile = EmptyDict
    THEN <<"No recent health metrics are available. Please calculate your BMI first.">>
    ELSE <<"--- User Health Snapshot ---",
           "BMI: ", Fmt2(profile.bmi), Get(profile, "category", "N/A"),
           "Goal: ", Get(profile, "goal", "N/A"),
           "Activity: ", Get(profile, "activity", "N/A"),
           "Diet: ", Get(profile, "diet", "N/A"),
           "Age/Gender: ", ToString(profile.age), Get(profile, "gender", "N/A"),
           "Weight/Height: ",
           IF profile.unit = "imperial"
           THEN ToString(profile.weight) \o ".0 lbs"
           ELSE ToString(profile.weight) \o ".0 kg",
           IF profile.unit = "imperial"
           THEN height_str(profile.height, "imperial")
           ELSE MetresRepr(profile.height) \o " m",
           "Water Intake Today: ", ToString(water) \o "ml">>

\* get_rule_based_response raises instead of returning (only the report branch can)
response_raises(query, profile) ==
    \E q \in {Lower(query)} : rule_of(q) = 3 /\ report_raises(profile)

\* the text get_rule_based_response returns from the branch `rule`, as the
\* pieces of the returned string
answer_of_rule(rule, profile, water, diet_pref) ==
        CASE rule = 1 ->
               IF water >= WATER_GOAL_ML
               THEN <<"Fantastic! You've logged **", ToString(water),
                      "ml** which meets your daily goal of **", ToString(WATER_GOAL_ML), "ml**!">>
               ELSE <<"You've logged **", ToString(water),
                      "ml** so far against a goal of **", ToString(WATER_GOAL_ML),
                      "ml**. That means you need about **", ToString(WATER_GOAL_ML - water),
                      "ml** more today.">>
          [] rule = 2 ->
               IF profile = EmptyDict
               THEN <<"I need your personal metrics first!">>
               ELSE LET goal == Get(profile, "goal", "Maintain Weight")
                        diet == Get(profile, "diet", "Omnivore")
                        advice == CASE goal = "Lose Weight" -> "Your current goal is **Weight Loss**."
                                    [] goal = "Gain Muscle" -> "Your current goal is **Muscle Gain**."
                                    [] OTHER -> "Your current goal is to **Maintain Weight**."
                    IN  <<"Based on your latest inputs:", "Health Goal: ", goal,
                          "Diet Preference: ", diet, advice, diet>>
          [] rule = 3 ->
               <<"Here is your latest summary:">> \o get_personalized_health_report(profile, water)
          [] rule = 4 ->
               <<MEDICAL_DISCLAIMER, "I repeat this for all sensitive health queries.">>
          [] rule = 5 ->
               <<MEDICAL_DISCLAIMER, "I can suggest general benefits of common vitamins">>
          [] rule = 6 ->
               <<MEDICAL_DISCLAIMER, "Managing blood sugar requires a personalized approach.">>
          [] rule = 7 ->
               <<MEDICAL_DISCLAIMER, "To promote cardiovascular health, focus on a diet low in sodium">>
          [] rule = 8 ->
               <<MEDICAL_DISCLAIMER, "If you suspect food allergies or intolerances, you should consult an allergist.",
                 "Make sure to communicate your ", diet_pref, " diet preference to me for safe meal suggestions.">>
          [] rule = 9 ->
               <<"A healthy BMI range is typically **18.5 to 24.9**.">>
          [] rule = 10 ->
               <<"To achieve sustainable weight loss, prioritize **whole, unprocessed foods**.">>
          [] rule = 11 ->
               <<"For general health, the CDC recommends at least 150 minutes of moderate-intensity activity">>
          [] rule = 12 ->
               <<"A truly balanced diet requires hitting your **macro-nutrient targets**">>
          [] rule = 13 ->
               <<"Hello! I'm your Smart Health Assistant, powered by AI.">>
          [] OTHER ->
               <<"I'm generating an informed response for your query.">>

get_rule_based_response_allergy_undisclaimed(query, profile, water, diet_pref) ==
    CHOOSE text \in {IF rule = 8 THEN Tail(answer_of_rule(rule, profile, water, diet_pref))
                                 ELSE answer_of_rule(rule, profile, water, diet_pref) :
                        rule \in {rule_of(q) : q \in {Lower(query)}}} : TRUE

\* get_rule_based_response(query), reading self.current_inputs (profile),
\* self.water_intake_ml (water) and self.diet_preference (diet_pref).
\* (q = query.lower() and the branch are bound once, as elements of a set.)
get_rule_based_response(query, profile, water, diet_pref) ==
    CHOOSE text \in {answer_of_rule(rule, profile, water, diet_pref) :
                        rule \in {rule_of(q) : q \in {Lower(query)}}} : TRUE

----------------------------------------------------------------------------
(* Energy planner (generate_diet_plan).  Fixed point: kilograms and        *)
(* centimetres in thousandths, BMR in thousandths of a kcal, TDEE and the  *)
(* calorie target in 1/40000 kcal (every activity multiplier is a multiple *)
(* of 1/40), macro shares in twentieths.  Metric profiles are exact; the   *)
(* imperial conversion of the weight is rounded down to a gram.            *)

ACTIVITY_OPTIONS ==
    <<"Sedentary", "Lightly Active", "Moderately Active", "Very Active", "Extra Active">>

goal_options == <<"Lose Weight", "Maintain Weight", "Gain Muscle">>

\* units of the calorie target per kcal
KCAL == 40000

\* floor(k * x / 1000) without overflowing 32-bit arithmetic
MulDiv1000(k, x) == k * (x \div 1000) + (k * (x % 1000)) \div 1000

\* ACTIVITY_MULTIPLIERS.get(activity, 1.55), times 40
activity_multiplier(activity) ==
    CASE activity = "Sedentary" -> 48
      [] activity = "Lightly Active" -> 55
      [] activity = "Moderately Active" -> 62
      [] activity = "Very Active" -> 69
      [] activity = "Extra Active" -> 76
      [] OTHER -> 62

\* weight in grams (bmi.py:1222, 1225)
weight_kg(inputs) ==
    IF inputs.unit = "imperial"
    THEN ScaledDiv(inputs.weight * 100000, 220462, 3)
    ELSE inputs.weight * 1000

\* height in thousandths of a centimetre (bmi.py:1223, 1226)
height_cm(inputs) ==
    IF inputs.unit = "imperial" THEN inputs.height * 254 ELSE inputs.height * 1000

harris_benedict_bmr_female_only(gender, w, h, age) ==
    447593 + MulDiv1000(9247, w) + MulDiv1000(3098, h) - 4330 * age

\* the Harris-Benedict BMR in thousandths of a kcal (bmi.py:1229-1232)
harris_benedict_bmr(gender, w, h, age) ==
    IF gender = "Male"
    THEN 88362 + MulDiv1000(13397, w) + MulDiv1000(4799, h) - 5677 * age
    ELSE 447593 + MulDiv1000(9247, w) + MulDiv1000(3098, h) - 4330 * age

\* the macro shares of the goal, in twentieths (bmi.py:1242, 1246, 1250)
macros_of(goal) ==
    CASE goal = "Lose Weight" -> [P |-> 7, C |-> 8, F |-> 5]
      [] goal = "Gain Muscle" -> [P |-> 6, C |-> 10, F |-> 4]
      [] OTHER -> [P |-> 5, C |-> 9, F |-> 6]

\* the calorie target of the goal (bmi.py:1240, 1244, 1248)
cal_target_of(goal, tdee) ==
    CASE goal = "Lose Weight" -> tdee - 500 * KCAL
      [] goal = "Gain Muscle" -> tdee + 300 * KCAL
      [] OTHER -> tdee

\* round((cal_target * share) / kcal_per_gram): cal_target in 1/40000 kcal,
\* share in twentieths, Python's round (half to even)
round_grams(cal_target, share, kcal_per_gram) ==
    LET d == 20 * kcal_per_gram * KCAL
        a == cal_target \div d
        b == cal_target % d
        whole == a * share + (b * share) \div d
        rest == (b * share) % d
    IN  IF 2 * rest < d THEN whole
        ELSE IF 2 * rest > d THEN whole + 1
        ELSE IF whole % 2 = 0 THEN whole ELSE whole + 1

macro_grams_fat_at_4_kcal(cal_target, macros) ==
    [prot_g |-> round_grams(cal_target, macros.P, 4),
     carb_g |-> round_grams(cal_target, macros.C, 4),
     fat_g |-> round_grams(cal_target, macros.F, 4)]

\* prot_g, carb_g, fat_g (bmi.py:1252-1254)
macro_grams(cal_target, macros) ==
    [prot_g |-> round_grams(cal_target, macros.P, 4),
     carb_g |-> round_grams(cal_target, macros.C, 4),
     fat_g |-> round_grams(cal_target, macros.F, 9)]

TIP_BONE == "Health Tip: Prioritize calcium and Vitamin D intake for bone health."
TIP_HYDRATION == "Hydration Tip: Drink a large glass of water before every meal"
TIP_RECOVERY == "Recovery Tip: Ensure 7-9 hours of quality sleep nightly"
TIP_WELLNESS == "Wellness Tip: Manage stress through mindfulness or short breaks."

reminder_of_category_first(age, category, activity) ==
    IF category \in {"Overweight", "Obesity"} THEN TIP_HYDRATION
    ELSE IF age > 50 THEN TIP_BONE
    ELSE IF activity = "Extra Active" THEN TIP_RECOVERY
    ELSE TIP_WELLNESS

\* the reminder (bmi.py:1256-1264)
reminder_of(age, category, activity) ==
    IF age > 50 THEN TIP_BONE
    ELSE IF category \in {"Overweight", "Obesity"} THEN TIP_HYDRATION
    ELSE IF activity = "Extra Active" THEN TIP_RECOVERY
    ELSE TIP_WELLNESS

\* generate_diet_plan(inputs) for a complete profile: the values the plan
\* text is built from (bmi.py:1209-1283)
generate_diet_plan(inputs) ==
    LET bmr == harris_benedict_bmr(inputs.gender, weight_kg(inputs), height_cm(inputs),
                                   inputs.age)
        tdee == bmr * activity_multiplier(inputs.activity)
        cal_target == cal_target_of(inputs.goal, tdee)
        macros == macros_of(inputs.goal)
        grams == macro_grams(cal_target, macros)
    IN  [bmr |-> bmr, tdee |-> tdee, cal_target |-> cal_target, macros |-> macros,
         prot_g |-> grams.prot_g, carb_g |-> grams.carb_g, fat_g |-> grams.fat_g,
         reminder |-> reminder_of(inputs.age, inputs.category, inputs.activity)]

activity_text_maintain_first(category, goal) ==
    IF category = "Normal Weight" \/ goal = "Maintain Weight" THEN "Mixed Cardio & Strength"
    ELSE IF category = "Underweight" \/ goal = "Gain Muscle" THEN "Strength/Mass Training"
    ELSE "Cardio/Walking Focus"

\* the schedule's activity label (bmi.py:1335-1341)
activity_text(category, goal) ==
    IF category = "Underweight" \/ goal = "Gain Muscle" THEN "Strength/Mass Training"
    ELSE IF category = "Normal Weight" \/ goal = "Maintain Weight" THEN "Mixed Cardio & Strength"
    ELSE "Cardio/Walking Focus"

\* draw_schedule_chart(canvas, inputs): the activity interval it draws
draw_schedule_chart(inputs) ==
    [activity_text |-> activity_text(Get(inputs, "category", "N/A"), Get(inputs, "goal", "N/A"))]

----------------------------------------------------------------------------
(* Ideal weight estimator *)

\* BMI_MIN_NORMAL and BMI_MAX_NORMAL in tenths (bmi.py:101-102)
BMI_MIN_NORMAL == 185
BMI_MAX_NORMAL == 249

\* bmi_bound * height_m ** 2 (times 2.20462 for imperial) in tenths of a kg or
\* lb, rounded as f"{x:.1f}" rounds.  Imperial: height_m ** 2 * 2.20462 is
\* (height in tenths of an inch) ** 2 * 1.4223326e-5; the product is carried
\* to 1e-5 of a tenth.
bound_weight(bmi_bound, height, unit) ==
    IF unit = "imperial"
    THEN RoundDiv(bmi_bound * (MulDiv1000(142233, height * height) \div 100), 100000)
    ELSE RoundDiv(bmi_bound * height * height, 10000)

\* calculate_ideal_weight(height, unit): the two bounds in tenths and the text
\* returned (bmi.py:1067-1086)
calculate_ideal_weight(height, unit) ==
    LET min_weight == bound_weight(BMI_MIN_NORMAL, height, unit)
        max_weight == bound_weight(BMI_MAX_NORMAL, height, unit)
    IN  [min_weight |-> min_weight, max_weight |-> max_weight,
         text |-> Fmt1(min_weight) \o " - " \o Fmt1(max_weight) \o
                  (IF unit = "imperial" THEN " lbs" ELSE " kg")]

----------------------------------------------------------------------------
(* Inputs of the model *)

FormAl == [name |-> "Al", weight |-> Num(70), age |-> Num(30),
           metric_height |-> Num(175), ft |-> Num(5), inch |-> Num(90),
           gender |-> "Male", activity |-> "Moderately Active", goal |-> "Lose Weight"]

\* imperial height given as inches alone, the feet entry left blank
FormBo == [name |-> "Bo", weight |-> Num(95), age |-> Num(55),
           metric_height |-> Num(170), ft |-> Blank, inch |-> Num(700),
           gender |-> "Female", activity |-> "Extra Active", goal |-> "Gain Muscle"]

ValidForms == {FormAl, FormBo}

InvalidForms ==
    {[FormAl EXCEPT !.name = ""],
     [FormAl EXCEPT !.weight = Junk],
     [FormAl EXCEPT !.weight = Blank],
     [FormAl EXCEPT !.weight = Num(0)],
     [FormAl EXCEPT !.metric_height = Num(-175), !.ft = Num(-5)],
     [FormAl EXCEPT !.metric_height = Blank, !.ft = Junk],
     [FormAl EXCEPT !.metric_height = Junk, !.ft = Blank, !.inch = Blank],
     [FormAl EXCEPT !.age = Decimal],
     [FormAl EXCEPT !.age = Blank],
     [FormAl EXCEPT !.age = Num(15)],
     [FormAl EXCEPT !.age = Num(121)]}

Forms == ValidForms \cup InvalidForms

\* the forms submitted while the chatbot is in use
ChatForms == {FormAl, [FormAl EXCEPT !.name = ""]}

\* a record an earlier run of the program saved, i minutes before this run
PriorRecord(i) ==
    new_record([weight |-> 60 + i, height |-> 175, unit |-> "metric"],
               perform_calculation(60 + i, 175, "metric"),
               categorize_label(perform_calculation(60 + i, 175, "metric")), 0 - i)

\* the history file earlier runs left: n records, oldest first
PriorFile(n) == FileOf([k \in 1..n |-> PriorRecord(n + 1 - k)])

InitialFiles ==
    {FILE_MISSING, FILE_MALFORMED, FILE_UNDECODABLE,
     PriorFile(HISTORY_CAP - 1), PriorFile(HISTORY_CAP)}

TypedTexts == {"  ", "My Health Report ", "how much water"}
SuggestionQueries == {"what is my water status", "my health report"}
WaterEntries == {Num(1250), Num(0), Num(-250), Junk, Decimal}

\* BMI values given to the categorizer: a grid of half units from 0, and the
\* neighbours, one ten-thousandth apart, of every threshold
BmiSamples ==
    {k * 5000 : k \in 0..BmiGridMax}
    \cup {t + d : t \in {160000, 185000, 250000, 300000, 350000}, d \in {0 - 1, 0, 1}}

NoResult == [category |-> "", color |-> "", bg_color |-> "", warning |-> <<>>, benefit |-> ""]

\* a profile as calculate_bmi_gui leaves it for the form, unit and diet
ProfileOf(form, unit, diet) ==
    LET inputs == validate_and_get_inputs(form, unit, diet).inputs
        bmi == perform_calculation(inputs.weight, inputs.height, inputs.unit)
    IN  SetKey(SetKey(inputs, "category",
                      categorize_bmi(bmi, inputs.gender, inputs.unit, inputs.age).category),
               "bmi", bmi)

QueryPool ==
    {"how much water should I drink during exercise",
     "Is WATER good before exercise",
     "My water intake and my workout",
     "hydration",
     "exercise",
     "tell me about my plan",
     "my health report",
     "what is the medical disclaimer",
     "I have allergies",
     "which drug helps blood pressure",
     "what is bmi",
     "foods for weight loss",
     "balanced diet",
     "hello",
     "My diet plan for Diabetes and allergies",
     "supplements in a balanced diet",
     "foods",
     "blood sugar and cardio",
     "Heart Disease",
     "zzz"}

\* arguments given to perform_calculation on its own: weights, and heights in
\* the unit's scale, negative and zero heights among them
CalcWeights == {50, 70, 95, 120}
CalcHeights(unit) ==
    IF unit = "metric" THEN {0 - 175, 0 - 160, 0, 150, 160, 170, 175, 180, 190, 200}
    ELSE {0 - 700, 0 - 10, 0, 600, 650, 690, 700, 750}

\* validated weights and heights given to the calculation's pure part: heights
\* in the unit's scale, imperial ones with the inches near a whole foot
ResultWeights == {50, 60, 70, 80, 95, 120}
ResultHeights(unit) ==
    IF unit = "metric" THEN {150, 160, 175, 179, 180, 190}
    ELSE {600, 650, 690, 700, 714, 715, 716, 750}

\* profiles given to the planner on its own: FormAl with the weight, age,
\* gender, activity and goal varied, calculated in either unit
PlanWeights == {50, 70, 80, 95, 160}
PlanAges == {30, 50, 51}
PlanProfiles ==
    {ProfileOf([FormAl EXCEPT !.weight = Num(weight), !.age = Num(age), !.gender = gender,
                              !.activity = ACTIVITY_OPTIONS[a], !.goal = goal_options[g]],
               unit, DIET_OPTIONS[1]) :
        weight \in PlanWeights, age \in PlanAges, gender \in {"Male", "Female"},
        a \in 1..Len(ACTIVITY_OPTIONS), g \in 1..Len(goal_options),
        unit \in {"metric", "imperial"}}
    \cup {ProfileOf([FormAl EXCEPT !.weight = Num(1), !.age = Num(120),
                                   !.activity = ACTIVITY_OPTIONS[1], !.goal = goal_options[g]],
                    "metric", DIET_OPTIONS[1]) : g \in 1..Len(goal_options)}

QueryProfiles ==
    {EmptyDict, ProfileOf(FormAl, "metric", "Vegan"), ProfileOf(FormBo, "imperial", "Omnivore")}

QueryWaters == {0, 1250, WATER_GOAL_ML, MaxWater}

----------------------------------------------------------------------------
(* The application *)

\* the harnesses at rest
CzIdle == [bmi |-> 0, gender |-> "Male", age |-> 16, done |-> FALSE, result |-> NoResult]
QeIdle == [query |-> "", profile |-> EmptyDict, water |-> 0, diet_pref |-> DIET_OPTIONS[1],
           other_diet_pref |-> DIET_OPTIONS[1], done |-> FALSE,
           answer |-> <<>>, other_answer |-> <<>>]

BcIdle == [weight |-> 70, height |-> 175, unit |-> "metric", done |-> FALSE,
           outcome |-> [kind |-> "", bmi |-> 0]]
PlIdle == [inputs |-> EmptyDict, done |-> FALSE, plan |-> EmptyDict,
           schedule |-> [activity_text |-> ""]]

RsIdle == [weight |-> 70, height |-> 175, unit |-> "metric", done |-> FALSE,
           bmi |-> 0, category |-> "", ideal_range |-> [min_weight |-> 0, max_weight |-> 0,
                                                        text |-> ""],
           height_str |-> ""]

\* BMICalculatorApp.__init__ (bmi.py:123-182), ending with load_history
AppInit ==
    /\ unit_system = "metric"
    /\ diet_preference = DIET_OPTIONS[1]
    /\ water_intake_ml = 0
    /\ chatbot_is_loading = FALSE
    /\ chatbot_input = ""
    /\ current_inputs = EmptyDict
    /\ history_file \in InitialFiles
    /\ history = load_history(history_file)
    /\ chat_history = <<>>
    /\ dynamic_feedback_label = FB_START
    /\ main_pc = IF load_history_raises(history_file) THEN "uncaught_935" ELSE "idle"
    /\ threads = <<>>
    /\ after_queue = <<>>
    /\ calcs_done = 0
    /\ queries_sent = 0

Init == AppInit /\ cz = CzIdle /\ qe = QeIdle /\ bc = BcIdle /\ pl = PlIdle /\ rs = RsIdle

harness == <<cz, qe, bc, pl, rs>>
calc_state == <<current_inputs, history, history_file, calcs_done>>
chat_state == <<chatbot_is_loading, chatbot_input, chat_history, threads, after_queue, queries_sent>>

calculate_bmi_gui_resets_on_reject(form) ==
    /\ main_pc = "idle"
    /\ calcs_done < MaxCalcs
    /\ LET v == validate_and_get_inputs(form, unit_system, diet_preference)
       IN  /\ dynamic_feedback_label' = v.feedback
           /\ IF v.ok
              THEN /\ current_inputs' = v.inputs
                   /\ main_pc' = "calc_1097"
                   /\ calcs_done' = calcs_done + 1
              ELSE /\ current_inputs' = EmptyDict
                   /\ UNCHANGED <<main_pc, calcs_done>>
    /\ UNCHANGED <<unit_system, diet_preference, water_intake_ml, history, history_file,
                   chat_state, harness>>

\* calculate_bmi_gui, bmi.py:1088-1096: validation, then the profile is replaced.
\* The handler runs on the main thread; the worker thread can run between its
\* statements, so the handler is three steps (here, calc_categorize, calc_store).
calculate_bmi_gui(form) ==
    /\ main_pc = "idle"
    /\ calcs_done < MaxCalcs
    /\ LET v == validate_and_get_inputs(form, unit_system, diet_preference)
       IN  /\ dynamic_feedback_label' = v.feedback
           /\ IF v.ok
              THEN /\ current_inputs' = v.inputs
                   /\ main_pc' = "calc_1097"
                   /\ calcs_done' = calcs_done + 1
              ELSE UNCHANGED <<current_inputs, main_pc, calcs_done>>
    /\ UNCHANGED <<unit_system, diet_preference, water_intake_ml, history, history_file,
                   chat_state, harness>>

\* the BMI calculate_bmi_gui holds in its local variable bmi
local_bmi == perform_calculation(current_inputs.weight, current_inputs.height, current_inputs.unit)

\* calculate_bmi_gui, bmi.py:1097-1104
calc_categorize ==
    /\ main_pc = "calc_1097"
    /\ current_inputs' =
           SetKey(current_inputs, "category",
                  categorize_bmi(local_bmi, current_inputs.gender, current_inputs.unit,
                                 current_inputs.age).category)
    /\ main_pc' = "calc_1105"
    /\ UNCHANGED <<unit_system, diet_preference, water_intake_ml, history, history_file,
                   dynamic_feedback_label, calcs_done, chat_state, harness>>

\* calculate_bmi_gui, bmi.py:1105-1122, with save_history (bmi.py:942-969):
\* date is datetime.now(), outcome what open() and json.dump() do
calc_store(date, outcome) ==
    /\ main_pc = "calc_1105"
    /\ current_inputs' = SetKey(current_inputs, "bmi", local_bmi)
    /\ history' = appended_history(history,
                      new_record(current_inputs, local_bmi, current_inputs.category, date))
    /\ history_file' = written_file(history_file, history', outcome)
    /\ main_pc' = "idle"
    /\ UNCHANGED <<unit_system, diet_preference, water_intake_ml, dynamic_feedback_label,
                   calcs_done, chat_state, harness>>

\* clear_inputs (bmi.py:971-997)
clear_inputs ==
    /\ main_pc = "idle"
    /\ current_inputs' = EmptyDict
    /\ water_intake_ml' = 0
    /\ dynamic_feedback_label' = FB_START
    /\ UNCHANGED <<unit_system, diet_preference, history, history_file, main_pc,
                   calcs_done, chat_state, harness>>

update_unit_labels_keeps_profile(unit) ==
    /\ main_pc = "idle"
    /\ unit_system' = unit
    /\ water_intake_ml' = 0
    /\ dynamic_feedback_label' = FB_START
    /\ UNCHANGED <<diet_preference, current_inputs, history, history_file, main_pc,
                   calcs_done, chat_state, harness>>

\* a unit radio button is clicked: the variable is set, then update_unit_labels
\* runs (bmi.py:654-655, 999-1018), which ends with clear_inputs
update_unit_labels(unit) ==
    /\ main_pc = "idle"
    /\ unit_system' = unit
    /\ current_inputs' = EmptyDict
    /\ water_intake_ml' = 0
    /\ dynamic_feedback_label' = FB_START
    /\ UNCHANGED <<diet_preference, history, history_file, main_pc,
                   calcs_done, chat_state, harness>>

\* the diet OptionMenu sets self.diet_preference (bmi.py:690)
select_diet(diet) ==
    /\ main_pc = "idle"
    /\ diet_preference' = diet
    /\ UNCHANGED <<unit_system, water_intake_ml, dynamic_feedback_label, main_pc,
                   calc_state, chat_state, harness>>

log_water_intake_accepts_any_integer(entry) ==
    /\ main_pc = "idle"
    /\ IF IntOk(entry)
       THEN /\ water_intake_ml + entry.val <= MaxWater
            /\ water_intake_ml' = water_intake_ml + entry.val
            /\ UNCHANGED main_pc
       ELSE /\ UNCHANGED water_intake_ml
            /\ main_pc' = "showerror_913"
    /\ UNCHANGED <<unit_system, diet_preference, dynamic_feedback_label,
                   calc_state, chat_state, harness>>

\* log_water_intake (bmi.py:901-913), entry the text of the amount field.  On
\* a ValueError the handler stops in messagebox.showerror (bmi.py:913), a modal
\* dialog, until the user dismisses it.
log_water_intake(entry) ==
    /\ main_pc = "idle"
    /\ IF IntOk(entry) /\ entry.val > 0
       THEN /\ water_intake_ml + entry.val <= MaxWater
            /\ water_intake_ml' = water_intake_ml + entry.val
            /\ UNCHANGED main_pc
       ELSE /\ UNCHANGED water_intake_ml
            /\ main_pc' = "showerror_913"
    /\ UNCHANGED <<unit_system, diet_preference, dynamic_feedback_label,
                   calc_state, chat_state, harness>>

\* the user closes the error dialog and log_water_intake returns (bmi.py:913)
dismiss_showerror ==
    /\ main_pc = "showerror_913"
    /\ main_pc' = "idle"
    /\ UNCHANGED <<unit_system, diet_preference, water_intake_ml, dynamic_feedback_label,
                   calc_state, chat_state, harness>>

----------------------------------------------------------------------------
(* Chatbot *)

\* the user types into the chat entry; a disabled entry (set_loading_state,
\* bmi.py:432) takes no text
type_query(text) ==
    /\ main_pc = "idle"
    /\ ~chatbot_is_loading
    /\ chatbot_input' = text
    /\ UNCHANGED <<unit_system, diet_preference, water_intake_ml, dynamic_feedback_label,
                   main_pc, calc_state, chatbot_is_loading, chat_history, threads,
                   after_queue, queries_sent, harness>>

send_message_from_without_loading_state(text) ==
    /\ main_pc = "idle"
    /\ LET user_query == Strip(text)
       IN  IF user_query = "" \/ chatbot_is_loading
           THEN UNCHANGED chat_state
           ELSE /\ queries_sent < MaxQueries
                /\ chat_history' = Append(chat_history, [role |-> "user", text |-> <<user_query>>])
                /\ chatbot_input' = ""
                /\ UNCHANGED chatbot_is_loading
                /\ threads' = Append(threads, [query |-> user_query])
                /\ queries_sent' = queries_sent + 1
                /\ UNCHANGED after_queue
    /\ UNCHANGED <<unit_system, diet_preference, water_intake_ml, dynamic_feedback_label,
                   main_pc, calc_state, harness>>

\* send_message (bmi.py:553-566) when the chat entry holds text
send_message_from(text) ==
    /\ main_pc = "idle"
    /\ LET user_query == Strip(text)
       IN  IF user_query = "" \/ chatbot_is_loading
           THEN UNCHANGED chat_state
           ELSE /\ queries_sent < MaxQueries
                /\ chat_history' = Append(chat_history, [role |-> "user", text |-> <<user_query>>])
                /\ chatbot_input' = ""
                /\ chatbot_is_loading' = TRUE
                /\ threads' = Append(threads, [query |-> user_query])
                /\ queries_sent' = queries_sent + 1
                /\ UNCHANGED after_queue
    /\ UNCHANGED <<unit_system, diet_preference, water_intake_ml, dynamic_feedback_label,
                   main_pc, calc_state, harness>>

\* the Send button or the Return key (bmi.py:230, 306)
send_message == send_message_from(chatbot_input)

\* on_suggestion_click (bmi.py:311-332): the link's query replaces the entry's
\* text, unless the entry is disabled, and send_message runs
on_suggestion_click(query) ==
    send_message_from(IF chatbot_is_loading THEN chatbot_input ELSE query)

handle_api_response_appends_in_worker(i) ==
    /\ i \in 1..Len(threads)
    /\ threads' = RemoveAt(threads, i)
    /\ IF response_raises(threads[i].query, current_inputs)
       THEN UNCHANGED <<chatbot_is_loading, chat_history>>
       ELSE /\ chatbot_is_loading' = FALSE
            /\ chat_history' =
                  Append(chat_history,
                         [role |-> "bot",
                          text |-> get_rule_based_response(threads[i].query, current_inputs,
                                                           water_intake_ml, diet_preference)])
    /\ UNCHANGED <<unit_system, diet_preference, water_intake_ml, dynamic_feedback_label,
                   main_pc, calc_state, chatbot_input, after_queue, queries_sent, harness>>

\* handle_api_response (bmi.py:569-579) in worker thread i: the simulated call,
\* then master.after queues the callback; an exception ends the thread
handle_api_response(i) ==
    /\ i \in 1..Len(threads)
    /\ threads' = RemoveAt(threads, i)
    /\ after_queue' =
          IF response_raises(threads[i].query, current_inputs)
          THEN after_queue
          ELSE Append(after_queue,
                      get_rule_based_response(threads[i].query, current_inputs,
                                              water_intake_ml, diet_preference))
    /\ UNCHANGED <<unit_system, diet_preference, water_intake_ml, dynamic_feedback_label,
                   main_pc, calc_state, chatbot_is_loading, chatbot_input, chat_history,
                   queries_sent, harness>>

after_callback_prepends ==
    /\ main_pc = "idle"
    /\ after_queue # <<>>
    /\ chatbot_is_loading' = FALSE
    /\ chat_history' = <<[role |-> "bot", text |-> Head(after_queue)]>> \o chat_history
    /\ after_queue' = Tail(after_queue)
    /\ UNCHANGED <<unit_system, diet_preference, water_intake_ml, dynamic_feedback_label,
                   main_pc, calc_state, chatbot_input, threads, queries_sent, harness>>

\* the callback queued by handle_api_response runs on the main thread (bmi.py:575-579)
after_callback ==
    /\ main_pc = "idle"
    /\ after_queue # <<>>
    /\ chatbot_is_loading' = FALSE
    /\ chat_history' = Append(chat_history, [role |-> "bot", text |-> Head(after_queue)])
    /\ after_queue' = Tail(after_queue)
    /\ UNCHANGED <<unit_system, diet_preference, water_intake_ml, dynamic_feedback_label,
                   main_pc, calc_state, chatbot_input, threads, queries_sent, harness>>

\* clear_chatbot_history (bmi.py:376-385)
clear_chatbot_history ==
    /\ main_pc = "idle"
    /\ chat_history' = <<>>
    /\ UNCHANGED <<unit_system, diet_preference, water_intake_ml, dynamic_feedback_label,
                   main_pc, calc_state, chatbot_is_loading, chatbot_input, threads,
                   after_queue, queries_sent, harness>>

----------------------------------------------------------------------------
(* Specifications *)

\* The calculator, the history store and the hydration log.  The chatbot's
\* actions leave every variable these actions read or write unchanged and are
\* left to ChatSpec.
Next ==
    \/ \E form \in Forms : calculate_bmi_gui(form)
    \/ calc_categorize
    \/ \E date \in 0..MaxTime, outcome \in SaveOutcomes : calc_store(date, outcome)
    \/ clear_inputs
    \/ \E unit \in {"metric", "imperial"} : update_unit_labels(unit)
    \/ \E k \in 1..Len(DIET_OPTIONS) : select_diet(DIET_OPTIONS[k])
    \/ \E entry \in WaterEntries : log_water_intake(entry)
    \/ dismiss_showerror

Spec == Init /\ [][Next]_vars

\* The chatbot with its worker thread, next to the calculator actions that
\* change what the query engine reads (profile, hydration, diet dropdown).
ChatNext ==
    \/ \E form \in ChatForms : calculate_bmi_gui(form)
    \/ calc_categorize
    \/ calc_store(0, "ok")
    \/ clear_inputs
    \/ select_diet(DIET_OPTIONS[2])
    \/ log_water_intake(Num(WATER_GOAL_ML))
    \/ \E text \in TypedTexts : type_query(text)
    \/ send_message
    \/ \E query \in SuggestionQueries : on_suggestion_click(query)
    \/ \E i \in 1..Len(threads) : handle_api_response(i)
    \/ after_callback
    \/ clear_chatbot_history

ChatInit == Init /\ history_file = FILE_MISSING

ChatSpec == ChatInit /\ [][ChatNext]_vars

\* Scheduling: a started worker thread runs to its end, the Tk event loop runs
\* a queued callback once the main thread is idle, and a handler that has
\* started on the main thread runs to its end.
ChatFairness ==
    /\ WF_vars(\E i \in 1..Len(threads) : handle_api_response(i))
    /\ WF_vars(after_callback)
    /\ WF_vars(calc_categorize)
    /\ WF_vars(calc_store(0, "ok"))

\* The chatbot under that scheduling, with the user actions that can run
\* while a query is pending: calculating, clearing the form, logging water,
\* clearing the chat.
PendingNext ==
    \/ calculate_bmi_gui(FormAl)
    \/ calc_categorize
    \/ calc_store(0, "ok")
    \/ clear_inputs
    \/ log_water_intake(Num(WATER_GOAL_ML))
    \/ type_query("My Health Report ")
    \/ send_message
    \/ \E i \in 1..Len(threads) : handle_api_response(i)
    \/ after_callback
    \/ clear_chatbot_history

FairChatSpec == ChatInit /\ [][PendingNext]_vars /\ ChatFairness

\* The categorizer on its own: a BMI value is drawn and categorize_bmi applied.
categorize_step ==
    /\ ~cz.done
    /\ cz' = [cz EXCEPT !.done = TRUE,
                        !.result = categorize_bmi(cz.bmi, cz.gender, "metric", cz.age)]
    /\ UNCHANGED <<appvars, qe, bc, pl, rs>>

CategorizeInit ==
    /\ AppInit /\ history_file = FILE_MISSING
    /\ qe = QeIdle /\ bc = BcIdle /\ pl = PlIdle /\ rs = RsIdle
    /\ \E bmi \in BmiSamples, gender \in {"Male", "Female"} :
          cz = [CzIdle EXCEPT !.bmi = bmi, !.gender = gender]

CategorizeNext == categorize_step

CategorizeSpec == CategorizeInit /\ [][CategorizeNext]_vars

\* perform_calculation on its own: arguments are drawn and the function called
calculate_step ==
    /\ ~bc.done
    /\ bc' = [bc EXCEPT !.done = TRUE,
                        !.outcome = perform_calculation_outcome(bc.weight, bc.height, bc.unit)]
    /\ UNCHANGED <<appvars, cz, qe, pl, rs>>

CalcInit ==
    /\ AppInit /\ history_file = FILE_MISSING
    /\ cz = CzIdle /\ qe = QeIdle /\ pl = PlIdle /\ rs = RsIdle
    /\ \E unit \in {"metric", "imperial"} :
          \E weight \in CalcWeights, height \in CalcHeights(unit) :
              bc = [BcIdle EXCEPT !.weight = weight, !.height = height, !.unit = unit]

CalcNext == calculate_step

CalcSpec == CalcInit /\ [][CalcNext]_vars

\* The results of one calculation on validated inputs: calculate_bmi_gui's
\* bmi, category and ideal_range (bmi.py:1097-1102) and the height string of
\* save_history and of the health report (bmi.py:948-954, 445-450)
result_step ==
    /\ ~rs.done
    /\ rs' = [rs EXCEPT
                !.done = TRUE,
                !.bmi = perform_calculation(rs.weight, rs.height, rs.unit),
                !.category = categorize_label(perform_calculation(rs.weight, rs.height,
                                                                  rs.unit)),
                !.ideal_range = calculate_ideal_weight(rs.height, rs.unit),
                !.height_str = height_str(rs.height, rs.unit)]
    /\ UNCHANGED <<appvars, cz, qe, bc, pl>>

ResultInit ==
    /\ AppInit /\ history_file = FILE_MISSING
    /\ cz = CzIdle /\ qe = QeIdle /\ bc = BcIdle /\ pl = PlIdle
    /\ \E unit \in {"metric", "imperial"} :
          \E weight \in ResultWeights, height \in ResultHeights(unit) :
              rs = [RsIdle EXCEPT !.weight = weight, !.height = height, !.unit = unit]

ResultNext == result_step

ResultSpec == ResultInit /\ [][ResultNext]_vars

\* The planner on its own: a calculated profile is drawn and the plan generated
\* and the schedule drawn (view_plan, bmi.py:871, 887)
plan_step ==
    /\ ~pl.done
    /\ pl' = [pl EXCEPT !.done = TRUE, !.plan = generate_diet_plan(pl.inputs),
                        !.schedule = draw_schedule_chart(pl.inputs)]
    /\ UNCHANGED <<appvars, cz, qe, bc, rs>>

PlanInit ==
    /\ AppInit /\ history_file = FILE_MISSING
    /\ cz = CzIdle /\ qe = QeIdle /\ bc = BcIdle /\ rs = RsIdle
    /\ \E inputs \in PlanProfiles : pl = [PlIdle EXCEPT !.inputs = inputs]

PlanNext == plan_step

PlanSpec == PlanInit /\ [][PlanNext]_vars

\* The query engine on its own: the same query, profile and hydration value
\* answered twice, under two selections of the diet dropdown.
answer_query ==
    /\ ~qe.done
    /\ ~response_raises(qe.query, qe.profile)
    /\ qe' = [qe EXCEPT
                !.done = TRUE,
                !.answer = get_rule_based_response(qe.query, qe.profile, qe.water, qe.diet_pref),
                !.other_answer = get_rule_based_response(qe.query, qe.profile, qe.water,
                                                         qe.other_diet_pref)]
    /\ UNCHANGED <<appvars, cz, bc, pl, rs>>

QueryInit ==
    /\ AppInit /\ history_file = FILE_MISSING
    /\ cz = CzIdle /\ bc = BcIdle /\ pl = PlIdle /\ rs = RsIdle
    /\ \E query \in QueryPool, profile \in QueryProfiles, water \in QueryWaters,
          k1 \in 1..Len(DIET_OPTIONS), k2 \in 1..Len(DIET_OPTIONS) :
          qe = [QeIdle EXCEPT !.query = query, !.profile = profile, !.water = water,
                              !.diet_pref = DIET_OPTIONS[k1],
                              !.other_diet_pref = DIET_OPTIONS[k2]]

QueryNext == answer_query

QuerySpec == QueryInit /\ [][QueryNext]_vars

----------------------------------------------------------------------------
(* Properties *)

\* C1: categorize_bmi gives exactly one of the four labels, with boundaries
\* inclusive below: Underweight iff bmi < 18.5, Normal Weight iff
\* 18.5 <= bmi < 25.0, Overweight iff 25.0 <= bmi < 30.0, Obesity iff bmi >= 30.0.
C1_CategoryBoundaries ==
    cz.done =>
        LET b == cz.bmi
            c == cz.result.category
        IN  /\ c \in {"Underweight", "Normal Weight", "Overweight", "Obesity"}
            /\ (c = "Underweight") <=> (b < 185000)
            /\ (c = "Normal Weight") <=> (185000 <= b /\ b < 250000)
            /\ (c = "Overweight") <=> (250000 <= b /\ b < 300000)
            /\ (c = "Obesity") <=> (b >= 300000)

\* the boundary value 18.5 has been categorized, as Normal Weight
C1_Witness == cz.done /\ cz.bmi = 185000 /\ cz.result.category = "Normal Weight"

C3_AppendsAndEvictsOldest ==
    [][IF main_pc = "calc_1105" /\ main_pc' = "idle"
       THEN LET n == Len(history)
                m == Len(history')
            IN  /\ m = Min(n + 1, HISTORY_CAP)
                /\ history'[m] = new_record(current_inputs, local_bmi,
                                            current_inputs.category, history'[m].date)
                /\ \A i \in 1..(m - 1) : history'[i] = history[i + (n + 1 - m)]
       ELSE history' = history]_vars

\* two calculations were stored on top of 19 earlier records: the oldest is gone
C3_Witness ==
    /\ Len(history) = HISTORY_CAP
    /\ history[1] = PriorRecord(HISTORY_CAP - 2)
    /\ history[HISTORY_CAP - 1].date >= 0
    /\ history[HISTORY_CAP].date >= 0

RejectionLabels == {FB_NAME, FB_POSITIVE, FB_AGE, FB_INVALID}

\* C4: when validation rejects the form, calculate_bmi_gui reports it and runs
\* nothing further: profile, history and history file stay as they were.
C4_RejectionChangesNothing ==
    [][\A form \in Forms :
          (calculate_bmi_gui(form)
             /\ ~validate_and_get_inputs(form, unit_system, diet_preference).ok)
          => /\ dynamic_feedback_label' \in RejectionLabels
             /\ UNCHANGED <<current_inputs, history, history_file, main_pc>>]_vars

\* a form was rejected for the age while the profile of an earlier calculation exists
C4_Witness ==
    /\ dynamic_feedback_label = FB_AGE
    /\ HasKey(current_inputs, "bmi")
    /\ Len(history) > 0
    /\ history_file = FileOf(history)

\* C5: in imperial mode a blank feet entry or a blank inches entry is a
\* validation error and produces no profile.
C5_BlankImperialHeightRejected ==
    [][\A form \in Forms :
          (calculate_bmi_gui(form) /\ unit_system = "imperial"
             /\ (form.ft = Blank \/ form.inch = Blank))
          => /\ dynamic_feedback_label' \in RejectionLabels
             /\ UNCHANGED current_inputs]_vars

\* queries accepted whose answer has not been delivered yet
InFlight == Len(threads) + Len(after_queue)

\* C6: at most one query is in flight, and while one is, every send_message
\* (Send, Return or a suggestion link) appends no user turn and starts no worker.
C6_AtMostOneInFlight ==
    /\ [](InFlight <= 1)
    /\ [][(InFlight > 0
             /\ (send_message \/ \E query \in SuggestionQueries : on_suggestion_click(query)))
          => UNCHANGED <<chat_history, threads, after_queue, chatbot_is_loading>>]_vars

\* a query is pending in its worker thread, the entry disabled and emptied
C6_Witness ==
    /\ Len(threads) = 1 /\ after_queue = <<>>
    /\ chatbot_is_loading /\ chatbot_input = ""
    /\ Len(chat_history) = 1 /\ chat_history[1].role = "user"

\* C7: a completed query appends exactly one bot turn, and the append is made
\* by the callback run on the main thread, never by the worker thread.
C7_OneBotTurnOnMainThread ==
    [][/\ (Len(threads') < Len(threads)) => (chat_history' = chat_history)
       /\ (after_queue # <<>> /\ after_queue' = Tail(after_queue))
             => chat_history' = Append(chat_history, [role |-> "bot", text |-> Head(after_queue)])
       /\ (chat_history' # chat_history /\ chat_history' # <<>>
              /\ chat_history'[Len(chat_history')].role = "bot")
             => /\ main_pc = "idle"
                /\ after_queue # <<>> /\ after_queue' = Tail(after_queue)
                /\ threads' = threads]_vars

\* a query was answered: its bot turn follows the user turn and nothing is pending
C7_Witness ==
    /\ Len(chat_history) = 2
    /\ chat_history[1].role = "user" /\ chat_history[2].role = "bot"
    /\ threads = <<>> /\ after_queue = <<>> /\ ~chatbot_is_loading

\* C8: every accepted query eventually completes: the loading state is
\* eventually cleared again.
C8_EveryQueryCompletes == chatbot_is_loading ~> ~chatbot_is_loading

\* the answer is the one of the water/hydration branch (bmi.py:490, 493)
IsWaterAnswer(answer) ==
    answer # <<>> /\ answer[1] \in {"Fantastic! You've logged **", "You've logged **"}

\* the answer is the one of the exercise branch (bmi.py:543)
IsExerciseAnswer(answer) == answer = answer_of_rule(11, EmptyDict, 0, DIET_OPTIONS[1])

\* C9 as stated: a query containing the word "water" and the word "exercise"
\* is answered by the water/hydration branch and never by the exercise branch.
C9_WaterWordBeatsExercise ==
    (qe.done /\ Contains(Lower(qe.query), "water") /\ Contains(Lower(qe.query), "exercise"))
        => (IsWaterAnswer(qe.answer) /\ ~IsExerciseAnswer(qe.answer))

\* C9: a query containing one of the water branch's phrases ("water status",
\* "my water", "hydration", "how much water") and an exercise keyword
\* ("exercise", "workout") is answered by the water/hydration branch and never
\* by the exercise branch.
C9_WaterPhraseBeatsExercise ==
    (qe.done /\ ContainsAny(Lower(qe.query), WaterKeywords)
             /\ ContainsAny(Lower(qe.query), ExerciseKeywords))
        => (IsWaterAnswer(qe.answer) /\ ~IsExerciseAnswer(qe.answer))

\* "how much water ... exercise" was answered with the remaining-water status
C9_Witness ==
    /\ qe.done /\ qe.query = "how much water should I drink during exercise"
    /\ qe.water = 1250
    /\ qe.answer[1] = "You've logged **" /\ qe.answer[2] = "1250"

\* C10: the same query, profile and hydration value give the same answer text,
\* whatever the diet dropdown shows.
C10_SameInputsSameAnswer == qe.done => qe.answer = qe.other_answer

\* the lowest-numbered rule whose keyword test the query passes, 14 if none does
FirstMatch(query) ==
    CHOOSE n \in 1..14 :
        \E M \in {MatchingRules(q) : q \in {Lower(query)}} :
            IF M = {} THEN n = 14 ELSE n \in M /\ \A m \in M : n <= m

\* the fallback text of rule 14 (bmi.py:551)
IsFallbackAnswer(answer) == answer = answer_of_rule(14, EmptyDict, 0, DIET_OPTIONS[1])

\* C11: the answer is that of the lowest-numbered rule whose keywords occur in
\* the lower-cased query, and the fallback of rule 14 is returned exactly when
\* no rule of 1..13 matches.
C11_FirstMatchWins ==
    qe.done =>
        /\ qe.answer = answer_of_rule(FirstMatch(qe.query), qe.profile, qe.water, qe.diet_pref)
        /\ IsFallbackAnswer(qe.answer) <=> (FirstMatch(qe.query) = 14)

\* a query with keywords of rules 5, 7 and 13 got the answer of rule 5
C11_Witness ==
    /\ qe.done /\ qe.query = "which drug helps blood pressure"
    /\ \E M \in {MatchingRules(Lower(qe.query))} : {5, 7, 13} \subseteq M
    /\ qe.answer = answer_of_rule(5, qe.profile, qe.water, qe.diet_pref)

\* the rules whose answer is a disclaimer answer (bmi.py:519-533)
DisclaimerRules == 4..8

\* C12: the answer begins with the one disclaimer sentence exactly when the
\* branch taken is a disclaimer-triggering one (disclaimer request, medication,
\* diabetes, cardiovascular, allergy); no other branch's answer begins with it.
C12_DisclaimerPrefix ==
    qe.done =>
        ((FirstMatch(qe.query) \in DisclaimerRules)
            <=> (qe.answer # <<>> /\ qe.answer[1] = MEDICAL_DISCLAIMER))

\* the allergy answer was given, disclaimer first, naming the dropdown's diet
C12_Witness ==
    /\ qe.done /\ qe.query = "I have allergies"
    /\ qe.answer[1] = MEDICAL_DISCLAIMER
    /\ qe.answer[4] = qe.diet_pref

\* the warning text starts with the severe-risk alert (bmi.py:1148-1149)
HasSevereAlert(result) ==
    result.warning # <<>> /\ result.warning[1] = "SEVERE HEALTH RISK INDICATOR"

\* the colour of a category without escalation (bmi.py:1137-1144)
CategoryColor(category) ==
    CASE category = "Underweight" -> "COLOR_ACCENT_BLUE"
      [] category = "Normal Weight" -> "COLOR_ACCENT_GREEN"
      [] category = "Overweight" -> "COLOR_WARNING"
      [] OTHER -> "COLOR_DANGER"

\* C13: the severe-risk alert is prepended and the colours are overridden to
\* the maximum-danger styling iff bmi < 16.0 or bmi > 35.0 (16.0 and 35.0
\* themselves do not fire); the category label is the one the thresholds give.
C13_SevereEscalation ==
    cz.done =>
        LET b == cz.bmi
            r == cz.result
            severe == b < 160000 \/ b > 350000
        IN  /\ HasSevereAlert(r) <=> severe
            /\ (r.bg_color = "#FFCDD2") <=> severe
            /\ severe => r.color = "COLOR_DANGER"
            /\ ~severe => r.color = CategoryColor(r.category)
            /\ r.category = (IF b < 185000 THEN "Underweight"
                             ELSE IF b < 250000 THEN "Normal Weight"
                             ELSE IF b < 300000 THEN "Overweight"
                             ELSE "Obesity")

\* a BMI just below 16.0 was categorized: alert and danger colours, label Underweight
C13_Witness ==
    /\ cz.done /\ cz.bmi = 159999
    /\ HasSevereAlert(cz.result)
    /\ cz.result.color = "COLOR_DANGER" /\ cz.result.bg_color = "#FFCDD2"
    /\ cz.result.category = "Underweight"

\* floor(n * 10^4 / d) by long division, two decimal digits at a time
Floor4(n, d) ==
    LET q0 == n \div d
        r0 == n % d
        q1 == (r0 * 100) \div d
        r1 == (r0 * 100) % d
        q2 == (r1 * 100) \div d
    IN  q0 * 10000 + q1 * 100 + q2

\* C14: the profile's imperial height is feet*12 + inches (metric: the metres
\* entered), and the BMI stored is weight/height^2 in metric mode and
\* (weight/height^2)*703 in imperial mode.
C14_BmiFormula ==
    [][/\ \A form \in Forms :
              (calculate_bmi_gui(form) /\ main_pc' = "calc_1097")
              => /\ current_inputs'.weight = form.weight.val
                 /\ current_inputs'.unit = unit_system
                 /\ current_inputs'.height =
                        (IF unit_system = "metric"
                         THEN form.metric_height.val
                         ELSE FloatOrZero(form.ft).val * 120 + FloatOrZero(form.inch).val)
       /\ (main_pc = "calc_1105" /\ main_pc' = "idle")
              => /\ current_inputs.weight > 0 /\ current_inputs.height > 0
                 /\ current_inputs'.bmi =
                        (IF current_inputs.unit = "metric"
                         THEN Floor4(current_inputs.weight * 10000,
                                     current_inputs.height * current_inputs.height)
                         ELSE Floor4(current_inputs.weight * 70300,
                                     current_inputs.height * current_inputs.height))]_vars

\* 70 lbs at 5 ft 9.0 in was calculated: height 69.0 in, BMI 10.3360
C14_Witness ==
    /\ main_pc = "idle" /\ HasKey(current_inputs, "bmi")
    /\ current_inputs.unit = "imperial"
    /\ current_inputs.weight = 70 /\ current_inputs.height = 690
    /\ current_inputs.bmi = 103360

\* C15: perform_calculation called with height <= 0 fails with an InvalidInput
\* error; it neither returns a BMI nor raises a division error.
C15_NonPositiveHeightIsInvalidInput ==
    (bc.done /\ bc.height <= 0) => bc.outcome.kind = "InvalidInput"

Abs(x) == IF x < 0 THEN 0 - x ELSE x

\* the planner was given 70 kg, 1.75 m, age 30, Male, metric, Moderately
\* Active, Lose Weight
IsReferenceProfile(inputs) ==
    /\ inputs.unit = "metric" /\ inputs.weight = 70 /\ inputs.height = 175
    /\ inputs.age = 30 /\ inputs.gender = "Male"
    /\ inputs.activity = "Moderately Active" /\ inputs.goal = "Lose Weight"

\* C16 as stated: for the reference profile the BMR is within 0.5 of 1695.0,
\* the TDEE about 2627.2 and the Lose Weight target about 2127.2 (within 0.5).
C16_ReferenceValuesAsStated ==
    (pl.done /\ IsReferenceProfile(pl.inputs)) =>
        /\ Abs(pl.plan.bmr - 1695000) <= 500
        /\ Abs(pl.plan.tdee - 26272 * (KCAL \div 10)) <= KCAL \div 2
        /\ Abs(pl.plan.cal_target - 21272 * (KCAL \div 10)) <= KCAL \div 2

\* C16: for the reference profile the BMR is 1695.667 (within 0.001), the
\* TDEE 2628.28 and the Lose Weight target 2128.28 (within 0.01), the target
\* being the TDEE less 500.
C16_ReferenceValues ==
    (pl.done /\ IsReferenceProfile(pl.inputs)) =>
        /\ Abs(pl.plan.bmr - 1695667) <= 1
        /\ Abs(pl.plan.tdee - 262828 * (KCAL \div 100)) <= KCAL \div 100
        /\ Abs(pl.plan.cal_target - 212828 * (KCAL \div 100)) <= KCAL \div 100
        /\ pl.plan.cal_target = pl.plan.tdee - 500 * KCAL

\* the plan of the reference profile was generated
C16_Witness ==
    /\ pl.done /\ IsReferenceProfile(pl.inputs)
    /\ pl.plan.bmr > 0 /\ pl.plan.cal_target < pl.plan.tdee

\* the calories of the rounded macro grams, in 1/40000 kcal
MacroCalories(plan) == (plan.prot_g * 4 + plan.carb_g * 4 + plan.fat_g * 9) * KCAL

\* C17: the rounded macro grams reproduce the calorie target to within
\* rounding, |protein*4 + carb*4 + fat*9 - target| <= 8.5 kcal, and the
\* goal's three shares sum to 1.0.
C17_MacrosReproduceTarget ==
    pl.done =>
        /\ 2 * Abs(MacroCalories(pl.plan) - pl.plan.cal_target) <= 17 * KCAL
        /\ pl.plan.macros.P + pl.plan.macros.C + pl.plan.macros.F = 20

\* the reference profile's plan: 186 g protein, 213 g carbohydrate, 59 g fat
\* for a target of 2128.28 kcal
C17_Witness ==
    /\ pl.done /\ IsReferenceProfile(pl.inputs)
    /\ pl.plan.prot_g = 186 /\ pl.plan.carb_g = 213 /\ pl.plan.fat_g = 59
    /\ MacroCalories(pl.plan) # pl.plan.cal_target

\* C18: the reminder is chosen by strict priority: age > 50 gives the
\* bone-health tip; otherwise category Overweight or Obesity gives the
\* hydration tip; otherwise activity Extra Active gives the recovery tip;
\* otherwise the wellness tip.  Age 50 does not take the first branch.
C18_ReminderPriority ==
    pl.done =>
        LET i == pl.inputs
            heavy == i.category \in {"Overweight", "Obesity"}
            tip == pl.plan.reminder
        IN  /\ (tip = TIP_BONE) <=> (i.age > 50)
            /\ (tip = TIP_HYDRATION) <=> (i.age <= 50 /\ heavy)
            /\ (tip = TIP_RECOVERY) <=> (i.age <= 50 /\ ~heavy /\ i.activity = "Extra Active")
            /\ (tip = TIP_WELLNESS) <=> (i.age <= 50 /\ ~heavy /\ i.activity # "Extra Active")

\* an Extra Active, obese 51-year-old got the bone-health tip
C18_Witness ==
    /\ pl.done /\ pl.inputs.age = 51 /\ pl.inputs.category = "Obesity"
    /\ pl.inputs.activity = "Extra Active"
    /\ pl.plan.reminder = TIP_BONE

\* C19: the hydration total changes only through a log-water action;
\* calculating, clearing the form and switching the unit leave it unchanged.
C19_OnlyLogWaterChangesHydration ==
    [][(water_intake_ml' # water_intake_ml)
          => \E entry \in WaterEntries : log_water_intake(entry)]_vars

\* C20: the hydration total is never negative; a log-water action with a
\* positive integer amount adds exactly that amount, and one with a zero,
\* negative or non-integer amount reports an error and leaves the total unchanged.
C20_HydrationLog ==
    /\ [](water_intake_ml >= 0)
    /\ [][\A entry \in WaterEntries :
              log_water_intake(entry)
              => IF entry.kind = "num" /\ entry.val > 0
                 THEN /\ water_intake_ml' = water_intake_ml + entry.val
                      /\ main_pc' = "idle"
                 ELSE /\ water_intake_ml' = water_intake_ml
                      /\ main_pc' = "showerror_913"]_vars

\* 1250 ml were logged, then a rejected amount: the error dialog is open and
\* the total still 1250
C20_Witness ==
    /\ main_pc = "showerror_913"
    /\ water_intake_ml = 1250

\* the keys validate_and_get_inputs gives a profile (bmi.py:1050-1057)
InputKeys == {"name", "weight", "height", "age", "gender", "activity", "goal", "diet", "unit"}

\* the profile is empty, or has every input field and the bmi and category
\* calculated from them
ProfileComplete(profile) ==
    \/ profile = EmptyDict
    \/ /\ DOMAIN profile = InputKeys \cup {"category", "bmi"}
       /\ profile.bmi = perform_calculation(profile.weight, profile.height, profile.unit)
       /\ profile.category = categorize_label(profile.bmi)

\* C23: whenever the query worker thread reads the current profile, the
\* profile is empty or complete (all input fields with the bmi and category of
\* the same calculation), never partially populated.
C23_ProfileNeverReadPartial ==
    [][\A i \in 1..Len(threads) :
          handle_api_response(i) => ProfileComplete(current_inputs)]_vars

\* C24: the chat history is an append-only sequence of user and bot turns:
\* every change appends one turn at the end and leaves the earlier turns as
\* they were, or is the Clear Chat action emptying the sequence.
C24_ChatHistoryAppendOnly ==
    /\ [](\A k \in 1..Len(chat_history) : chat_history[k].role \in {"user", "bot"})
    /\ [][(chat_history' # chat_history)
            => \/ /\ Len(chat_history') = Len(chat_history) + 1
                  /\ SubSeq(chat_history', 1, Len(chat_history)) = chat_history
                  /\ send_message
                       \/ (\E query \in SuggestionQueries : on_suggestion_click(query))
                       \/ after_callback
               \/ /\ clear_chatbot_history
                  /\ chat_history' = <<>>]_vars

\* a first exchange was cleared and a second one appended
C24_Witness ==
    /\ queries_sent = 2
    /\ Len(chat_history) = 2
    /\ chat_history[1].role = "user" /\ chat_history[2].role = "bot"
    /\ threads = <<>> /\ after_queue = <<>>

\* C26: in every reachable state the chat history alternates user, bot,
\* user, bot, starting with a user turn (so that every bot turn follows the
\* user turn it answers), also when Clear Chat is pressed while a query is pending.
C26_TurnsAlternate ==
    \A k \in 1..Len(chat_history) :
        chat_history[k].role = (IF k % 2 = 1 THEN "user" ELSE "bot")

\* C27: whenever a current profile exists its unit is the unit system selected
\* in the form, and every change of the unit system discards the profile.
C27_ProfileUnitIsSelectedUnit ==
    /\ [](current_inputs # EmptyDict => current_inputs.unit = unit_system)
    /\ [][(unit_system' # unit_system) => current_inputs' = EmptyDict]_vars

\* a metric calculation was stored, then the unit switched to imperial: the
\* profile is gone
C27_Witness ==
    /\ unit_system = "imperial" /\ current_inputs = EmptyDict
    /\ history # <<>>
    /\ history[Len(history)].date >= 0
    /\ history[Len(history)].height = "1.75 m"

\* C25: the schedule's activity label is Strength/Mass Training iff the
\* category is Underweight or the goal Gain Muscle; otherwise Mixed Cardio &
\* Strength iff the category is Normal Weight or the goal Maintain Weight;
\* otherwise Cardio/Walking Focus, which is thus given only to Overweight or
\* Obesity with the goal Lose Weight.
C25_ActivityLabel ==
    pl.done =>
        LET category == pl.inputs.category
            goal == pl.inputs.goal
            label == pl.schedule.activity_text
            strength == category = "Underweight" \/ goal = "Gain Muscle"
            mixed == category = "Normal Weight" \/ goal = "Maintain Weight"
        IN  /\ (label = "Strength/Mass Training") <=> strength
            /\ (label = "Mixed Cardio & Strength") <=> (~strength /\ mixed)
            /\ (label = "Cardio/Walking Focus") <=> (~strength /\ ~mixed)
            /\ (label = "Cardio/Walking Focus")
                  <=> (category \in {"Overweight", "Obesity"} /\ goal = "Lose Weight")

\* an obese profile with the goal Lose Weight got the cardio label
C25_Witness ==
    /\ pl.done /\ pl.inputs.category = "Obesity" /\ pl.inputs.goal = "Lose Weight"
    /\ pl.schedule.activity_text = "Cardio/Walking Focus"

\* C28: for every validated profile the planner's BMR, TDEE and calorie
\* target are positive and its macro grams are non-negative.
\* The validation bounds only weight > 0, height > 0 and 16 <= age <= 120, so
\* the statement fails for a small enough body.
C28_PlanValuesPositive ==
    pl.done =>
        /\ pl.plan.bmr > 0 /\ pl.plan.tdee > 0 /\ pl.plan.cal_target > 0
        /\ pl.plan.prot_g >= 0 /\ pl.plan.carb_g >= 0 /\ pl.plan.fat_g >= 0

\* C21: history file failures never abort the flow: the application starts
\* whatever the history file holds, and a calculation whose save fails still
\* completes with the profile's bmi and category set.
\* The start-up half fails: load_history lets the UnicodeDecodeError of an
\* undecodable file escape from the constructor.
C21_HistoryFailuresNeverAbort ==
    /\ [](main_pc # "uncaught_935")
    /\ [][\A date \in 0..MaxTime, outcome \in SaveOutcomes \ {"ok"} :
            calc_store(date, outcome)
            => /\ HasKey(current_inputs', "bmi") /\ HasKey(current_inputs', "category")
               /\ main_pc' = "idle"]_vars

\* C22: after a save that writes successfully, loading the file yields exactly
\* the in-memory history, and saving what was loaded and loading again yields
\* the same file and the same list.
C22_SaveLoadRoundTrip ==
    [][\A date \in 0..MaxTime :
          calc_store(date, "ok")
          => /\ history_file'.kind = "json"
             /\ load_history(history_file') = history'
             /\ FileOf(load_history(history_file')) = history_file'
             /\ load_history(FileOf(load_history(history_file'))) = history']_vars

\* two calculations were saved; the file holds the BMI of the last as "22.86"
C22_Witness ==
    /\ calcs_done = 2 /\ main_pc = "idle" /\ history # <<>>
    /\ history_file.kind = "json" /\ Len(history_file.data) = Len(history)
    /\ history[Len(history)].bmi = 2286
    /\ history_file.data[Len(history)].bmi = "22.86"

\* C29: every imperial height string has the form '<feet> ft <inches> in'
\* with inches an integer in 0..11 and feet*12 + inches the validated total
\* inches rounded to the nearest whole inch.
\* Inches of 11.5 and more round to 12.
C29_ImperialHeightString ==
    (rs.done /\ rs.unit = "imperial") =>
        \E feet \in 0..9, inches \in 0..11 :
            /\ rs.height_str = ToString(feet) \o " ft " \o ToString(inches) \o " in"
            /\ feet * 12 + inches = RoundTenths(rs.height)

\* C30: the ideal weight estimator and the categorizer agree: the weight lies
\* within the estimator's range for the height iff the BMI of that weight and
\* height is categorized Normal Weight.
\* The estimator's upper bound is BMI 24.9, the categorizer's is below 25.0.
C30_IdealRangeIsNormalWeight ==
    rs.done =>
        ((rs.ideal_range.min_weight <= 10 * rs.weight
            /\ 10 * rs.weight <= rs.ideal_range.max_weight)
         <=> rs.category = "Normal Weight")

====
